---- MODULE Spec2Model ----
(***************************************************************************)
(* A model of acer-wmi-ext.c: the battery health / calibration modes       *)
(* (WMI namespace WMI_GUID1, methods 20 and 21), the USB charge mode and   *)
(* limit (WMI namespace WMI_GUID2, the ApgeAction get/set functions), the  *)
(* system control mode (EC register 0x45) and the platform profile on top  *)
(* of it.  Every sysfs handler and every platform-profile callback is one  *)
(* action; the firmware, the EC and the profile framework are the          *)
(* environment and answer nondeterministically.                            *)
(***************************************************************************)
EXTENDS Integers, Sequences, FiniteSets, TLC

VARIABLES
    pc,                          \* lifecycle of the module: "load", "setup", "running", "failed"
    has_guid,                    \* wmi_has_guid(): which WMI namespaces the device has
    ec,                          \* content of the EC register at ACER_SYSTEM_CONTROL_MODE_EC_OFFSET
    quirks,                      \* static struct quirk_entry *quirks (a name, "NULL" before find_quirks)
    battery_status,              \* static struct battery_info battery_status
    control_mode,                \* static short control_mode
    usb_charge_mode_enable,      \* static int usb_charge_mode_enable
    system_control_mode_inited,  \* static int system_control_mode_inited
    platform_profile_support,    \* static bool platform_profile_support
    op,                          \* the last handler that ran: its input, its result, the calls it made
    focus,                       \* the group of attributes this run exercises (see Focus)
    thr                          \* the threads of the interleaved specifications

vars == <<pc, has_guid, ec, quirks, battery_status, control_mode,
          usb_charge_mode_enable, system_control_mode_inited,
          platform_profile_support, op, focus, thr>>

(***************************************************************************)
(* Bounds of the model.                                                    *)
(***************************************************************************)
\* the EC register holds a byte 0..MaxEcByte (the hardware: 0..255)
MaxEcByte == 4
\* a uFunctionStatus byte of the method-20 response is 0..MaxStatusByte
MaxStatusByte == 2

(***************************************************************************)
(* Constants of the program.                                               *)
(***************************************************************************)
EIO == 5
ENODEV == 19
EINVAL == 22
ERANGE == 34
EOPNOTSUPP == 95
EBUSY == 16
ENOMEM == 12
INT_MAX == 2147483647

WMI_GUID1 == "79772EC5-04B1-4bfd-843C-61E7F77B6CC9"
WMI_GUID2 == "61EF69EA-865C-4BC3-A502-A0DEBA0CB531"
ACER_WMID_SET_FUNCTION == 1
ACER_WMID_GET_FUNCTION == 2
HEALTH_MODE == 1
CALIBRATION_MODE == 2
ACER_SYSTEM_CONTROL_MODE_EC_OFFSET == 69
SYSTEM_CONTROL_BALANCED == 1
SYSTEM_CONTROL_SILENT == 2
SYSTEM_CONTROL_PERFORMANCE == 3
max_retries == 10

ACPI_FAILURE(status) == status # "AE_OK"

quirk_unknown == [system_control_mode |-> 0, usb_charge_mode |-> 0]
quirk_acer_system_control_mode == [system_control_mode |-> 1, usb_charge_mode |-> 0]
quirk_acer_sfg174_73 == [system_control_mode |-> 1, usb_charge_mode |-> 1]

\* quirks is a pointer: the entry it points to
quirk_entry(p) ==
    CASE p = "quirk_acer_sfg174_73" -> quirk_acer_sfg174_73
      [] p = "quirk_acer_system_control_mode" -> quirk_acer_system_control_mode
      [] OTHER -> quirk_unknown

\* dmi_check_system(acer_quirks) with dmi_matched as the callback, then the
\* fallback of find_quirks
find_quirks(vendor, product) ==
    IF vendor = "Acer" /\ product = "Swift SFG14-73"
    THEN "quirk_acer_sfg174_73"
    ELSE "quirk_unknown"

(***************************************************************************)
(* Text: a sysfs buffer is a sequence of characters.                       *)
(***************************************************************************)
Digits == {"0", "1", "2", "3", "4", "5", "6", "7", "8", "9"}
DigitVal(c) ==
    CASE c = "0" -> 0 [] c = "1" -> 1 [] c = "2" -> 2 [] c = "3" -> 3
      [] c = "4" -> 4 [] c = "5" -> 5 [] c = "6" -> 6 [] c = "7" -> 7
      [] c = "8" -> 8 [] c = "9" -> 9
DigitChar(d) == <<"0", "1", "2", "3", "4", "5", "6", "7", "8", "9">>[d + 1]
Spaces == {" ", "\n", "\t"}

\* the characters of s from index i on
Rest(s, i) == SubSeq(s, i, Len(s))

\* the longest prefix of decimal digits of s: [n |-> digits consumed, val |-> value]
RECURSIVE parse_digits(_, _, _)
parse_digits(s, n, acc) ==
    IF n < Len(s) /\ s[n + 1] \in Digits
    THEN parse_digits(s, n + 1, acc * 10 + DigitVal(s[n + 1]))
    ELSE [n |-> n, val |-> acc]

\* _kstrtoull(s, 10): an optional '+', digits, an optional trailing newline, the end
kstrtoull(s) ==
    LET t == IF Len(s) > 0 /\ s[1] = "+" THEN Rest(s, 2) ELSE s
        p == parse_digits(t, 0, 0)
        u == Rest(t, p.n + 1)
        v == IF Len(u) > 0 /\ u[1] = "\n" THEN Rest(u, 2) ELSE u
    IN  IF p.n = 0 \/ Len(v) > 0
        THEN [err |-> -EINVAL, val |-> 0]
        ELSE [err |-> 0, val |-> p.val]

\* kstrtoint(s, 10, &res): kstrtoll and the range check of an int
kstrtoint(s) ==
    LET neg == Len(s) > 0 /\ s[1] = "-"
        r == kstrtoull(IF neg THEN Rest(s, 2) ELSE s)
        v == IF neg THEN -r.val ELSE r.val
    IN  IF r.err # 0 THEN r
        ELSE IF v > INT_MAX \/ v < -INT_MAX - 1 THEN [err |-> -ERANGE, val |-> 0]
        ELSE [err |-> 0, val |-> v]

\* kstrtobool(s, &res): decided by the first character (the second after 'o')
kstrtobool(s) ==
    LET c1 == IF Len(s) >= 1 THEN s[1] ELSE ""
        c2 == IF Len(s) >= 2 THEN s[2] ELSE ""
    IN  IF c1 \in {"e", "E", "y", "Y", "t", "T", "1"} THEN [err |-> 0, val |-> TRUE]
        ELSE IF c1 \in {"d", "D", "n", "N", "f", "F", "0"} THEN [err |-> 0, val |-> FALSE]
        ELSE IF c1 \in {"o", "O"} /\ c2 \in {"n", "N"} THEN [err |-> 0, val |-> TRUE]
        ELSE IF c1 \in {"o", "O"} /\ c2 \in {"f", "F"} THEN [err |-> 0, val |-> FALSE]
        ELSE [err |-> -EINVAL, val |-> FALSE]

\* s without its leading white space
RECURSIVE skip_spaces(_)
skip_spaces(s) ==
    IF Len(s) > 0 /\ s[1] \in Spaces THEN skip_spaces(Rest(s, 2)) ELSE s

\* sscanf(buf, "%hhd", &val) with u8 val: leading white space is skipped, an
\* optional '-' and the digits that follow are converted, what follows them is
\* ignored, and the value is stored through a char pointer: its low 8 bits.
\* [num |-> conversions made, val |-> the u8 stored]
sscanf_hhd(buf) ==
    LET s == skip_spaces(buf)
        neg == Len(s) > 0 /\ s[1] = "-"
        t == IF neg THEN Rest(s, 2) ELSE s
        p == parse_digits(t, 0, 0)
        v == IF neg THEN -p.val ELSE p.val
    IN  IF p.n = 0 THEN [num |-> 0, val |-> 0]
        ELSE [num |-> 1, val |-> v % 256]

\* the decimal digits of n >= 0
RECURSIVE utoa(_)
utoa(n) == IF n < 10 THEN <<DigitChar(n)>> ELSE utoa(n \div 10) \o <<DigitChar(n % 10)>>

\* sprintf(buf, "%d\n", v): the text written
sprintf_d(v) == (IF v < 0 THEN <<"-">> \o utoa(-v) ELSE utoa(v)) \o <<"\n">>

(***************************************************************************)
(* The environment: what the firmware, the EC and the framework answer.    *)
(***************************************************************************)
\* one call a handler made: the function, its arguments, the status it got
Call(fn, arg, status) == [fn |-> fn, arg |-> arg, status |-> status]

\* an ACPI object returned by wmi_evaluate_method
Failure(status) == [status |-> status, type |-> "none", bytes |-> <<>>, value |-> 0]
NullObject == [status |-> "AE_OK", type |-> "none", bytes |-> <<>>, value |-> 0]
IntegerObject(v) == [status |-> "AE_OK", type |-> "integer", bytes |-> <<>>, value |-> v]
BufferObject(b) == [status |-> "AE_OK", type |-> "buffer", bytes |-> b, value |-> 0]

\* The handlers fall into three groups that share no variable: the battery
\* modes (battery_status, WMI_GUID1), the USB charge attributes
\* (usb_charge_mode_enable, WMI_GUID2) and the system control mode with the
\* platform profile (control_mode, system_control_mode_inited,
\* platform_profile_support, the EC register).  Handlers of different groups
\* commute, so a run exercises one group, its focus: the environment of that
\* group answers in every way listed below, the environment of the other two
\* groups answers in one well-formed way.
Focus == {"battery", "usb", "scm"}

\* wmi_evaluate_method on a namespace the device does not have fails
Absent == {Failure("AE_ERROR")}

StatusBytes == 0..MaxStatusByte

\* method 20 of WMI_GUID1: an 8-byte buffer when well formed
Responses20 ==
    IF ~has_guid[WMI_GUID1] THEN Absent
    ELSE IF focus # "battery" THEN {BufferObject(<<3, 0, 0, 1, 0, 0, 0, 0>>)}
    ELSE {Failure("AE_NOT_FOUND"), NullObject, IntegerObject(0),
          BufferObject(<<3, 0, 0, 1>>)}
         \cup {BufferObject(<<l, 0, 0, s0, s1, 0, 0, 0>>) :
                   l \in 0..3, s0 \in StatusBytes, s1 \in StatusBytes}

\* method 21 of WMI_GUID1: a 4-byte buffer when well formed
Responses21 ==
    IF ~has_guid[WMI_GUID1] THEN Absent
    ELSE IF focus # "battery" THEN {BufferObject(<<0, 0, 0, 0>>)}
    ELSE {Failure("AE_NOT_FOUND"), NullObject, IntegerObject(0),
          BufferObject(<<0, 0, 0, 0>>), BufferObject(<<0, 0, 0, 0, 0, 0, 0, 0>>)}

\* the operands the ApgeAction get function is known to report, and another one
UsbOperands == {663296, 659200, 1314560, 1969920, 0}

\* the value a buffer holds, read as a little-endian integer
RECURSIVE le_value(_)
le_value(b) == IF Len(b) = 0 THEN 0 ELSE b[1] + 256 * le_value(Rest(b, 2))

\* the n bytes of v, little-endian
RECURSIVE le_bytes(_, _)
le_bytes(v, n) == IF n = 0 THEN <<>> ELSE <<v % 256>> \o le_bytes(v \div 256, n - 1)

\* the ApgeAction methods of WMI_GUID2: an integer, or a buffer of 4 or 8 bytes
ResponsesB ==
    IF ~has_guid[WMI_GUID2] THEN Absent
    ELSE IF focus # "usb" THEN {IntegerObject(1969920)}
    ELSE {Failure("AE_NOT_FOUND"), NullObject, BufferObject(le_bytes(659200, 2))}
         \cup {IntegerObject(v) : v \in UsbOperands}
         \cup {BufferObject(le_bytes(v, 4)) : v \in {659200, 663296}}
         \cup {BufferObject(le_bytes(v, 8)) : v \in {1314560, 1969920}}

\* ec_read / ec_write: 0, or an I/O error
EcResults == IF focus = "scm" THEN {0, -EIO} ELSE {0}
EcBytes == IF focus = "scm" THEN 0..MaxEcByte ELSE {SYSTEM_CONTROL_BALANCED}

(***************************************************************************)
(* Firmware transport.  An operator named f_ is the body of f, given what  *)
(* the calls f makes have returned.                                        *)
(***************************************************************************)
\* the value acer_wmi_apgeaction_exec_u64 reads out of the object r
exec_u64_tmp(r) ==
    IF r.type = "buffer"
    THEN IF Len(r.bytes) = 4 THEN le_value(r.bytes)
         ELSE IF Len(r.bytes) = 8 THEN le_value(r.bytes)
         ELSE 0
    ELSE IF r.type = "integer" THEN r.value
    ELSE 0

\* acer_wmi_apgeaction_exec_u64(method_id, in, &out) when the firmware answers r
acer_wmi_apgeaction_exec_u64(method_id, in, r) ==
    [status |-> r.status,
     out |-> IF ACPI_FAILURE(r.status) THEN 0 ELSE exec_u64_tmp(r),
     calls |-> <<Call("wmi_B", <<method_id, in>>, r.status)>>]

\* x & mask, for a mask of one bit
Bit(x, mask) == (x \div mask) % 2 = 1

\* struct get_battery_health_control_status_output, read from the buffer
output20(b) ==
    [uFunctionList |-> b[1],
     uFunctionStatus |-> <<b[4], b[5], b[6], b[7], b[8]>>]

\* health_mode derived with uFunctionStatus[0] == 1 in place of > 0
health_mode_of_exactly_one(ret) ==
    IF Bit(ret.uFunctionList, HEALTH_MODE)
    THEN (IF ret.uFunctionStatus[1] = 1 THEN 1 ELSE 0)
    ELSE -1

\* bat_status->health_mode as get_battery_health_control_status derives it
health_mode_of(ret) ==
    IF Bit(ret.uFunctionList, HEALTH_MODE)
    THEN (IF ret.uFunctionStatus[1] > 0 THEN 1 ELSE 0)
    ELSE -1

\* bat_status->calibration_mode as get_battery_health_control_status derives it
calibration_mode_of(ret) ==
    IF Bit(ret.uFunctionList, CALIBRATION_MODE)
    THEN (IF ret.uFunctionStatus[2] > 0 THEN 1 ELSE 0)
    ELSE -1

\* the status get_battery_health_control_status returns when the firmware answers r
status20(r) ==
    IF ACPI_FAILURE(r.status) THEN r.status
    ELSE IF r.type = "none" THEN "AE_ERROR"
    ELSE IF r.type # "buffer" THEN "AE_ERROR"
    ELSE IF Len(r.bytes) # 8 THEN "AE_ERROR"
    ELSE r.status

get_battery_health_control_status_(bat_status, r, status) ==
    [status |-> status,
     bat_status |-> IF ACPI_FAILURE(status) THEN bat_status
                    ELSE [health_mode |-> health_mode_of(output20(r.bytes)),
                          calibration_mode |-> calibration_mode_of(output20(r.bytes))],
     calls |-> <<Call("wmi_A", <<20, 1, 1>>, status)>>]

\* get_battery_health_control_status(bat_status): the status, *bat_status afterwards
get_battery_health_control_status(bat_status, r) ==
    get_battery_health_control_status_(bat_status, r, status20(r))

\* the status set_battery_health_control returns when the firmware answers r
status21(r) ==
    IF ACPI_FAILURE(r.status) THEN r.status
    ELSE IF r.type = "none" THEN "AE_ERROR"
    ELSE IF r.type # "buffer" THEN "AE_ERROR"
    ELSE IF Len(r.bytes) # 4 THEN "AE_ERROR"
    ELSE r.status

set_battery_health_control_(function, function_status, status) ==
    [status |-> status,
     calls |-> <<Call("wmi_A", <<21, 1, function, IF function_status THEN 1 ELSE 0>>,
                      status)>>]

\* set_battery_health_control(function, function_status) when the firmware answers r
set_battery_health_control(function, function_status, r) ==
    set_battery_health_control_(function, function_status, status21(r))

\* ec_write(offset, val) with result err, on a register holding reg: the
\* register afterwards
ec_write(reg, offset, val, err) ==
    [err |-> err,
     ec |-> IF err = 0 THEN val ELSE reg,
     calls |-> <<Call("ec_write", <<offset, val>>, IF err = 0 THEN "AE_OK" ELSE "AE_ERROR")>>]

\* ec_read(offset, &tp) with result err, on a register holding reg
ec_read(reg, offset, err) ==
    [err |-> err,
     val |-> reg,
     calls |-> <<Call("ec_read", <<offset>>, IF err = 0 THEN "AE_OK" ELSE "AE_ERROR")>>]

(***************************************************************************)
(* Battery health and calibration mode.                                    *)
(***************************************************************************)
\* update_state() without its call of get_battery_health_control_status
update_state_none(r20) ==
    [status |-> "AE_OK", bat_status |-> battery_status, calls |-> <<>>]

\* update_state(): the refresh of battery_status (its status is not looked at)
update_state(r20) == get_battery_health_control_status(battery_status, r20)

\* init_state()
init_state(r20) == get_battery_health_control_status(battery_status, r20)

\* health_mode_show / calibration_mode_show / system_control_mode_show /
\* usb_charge_mode_show: sprintf(buf, "%d\n", v), the length is returned
show_(text) == [ret |-> Len(text), out |-> text]
show(v) == show_(sprintf_d(v))

\* health_mode_store with update_state() called before set_battery_health_control
health_mode_store_refresh_first(buf, p, s, u) ==
    IF battery_status.health_mode < 0
    THEN [ret |-> 0, bat_status |-> battery_status, calls |-> <<>>]
    ELSE IF p.err # 0
    THEN [ret |-> p.err, bat_status |-> battery_status, calls |-> <<>>]
    ELSE [ret |-> Len(buf), bat_status |-> u.bat_status, calls |-> u.calls \o s.calls]

\* p is what kstrtobool returned, s what set_battery_health_control returned, u
\* what update_state did
health_mode_store_(buf, p, s, u) ==
    IF battery_status.health_mode < 0
    THEN [ret |-> 0, bat_status |-> battery_status, calls |-> <<>>]
    ELSE IF p.err # 0
    THEN [ret |-> p.err, bat_status |-> battery_status, calls |-> <<>>]
    ELSE [ret |-> Len(buf), bat_status |-> u.bat_status, calls |-> s.calls \o u.calls]

\* health_mode_store(driver, buf, count)
health_mode_store(buf, r21, r20) ==
    health_mode_store_(buf, kstrtobool(buf),
                       set_battery_health_control(HEALTH_MODE, kstrtobool(buf).val, r21),
                       update_state(r20))

calibration_mode_store_(buf, p, s, u) ==
    IF battery_status.calibration_mode < 0
    THEN [ret |-> 0, bat_status |-> battery_status, calls |-> <<>>]
    ELSE IF p.err # 0
    THEN [ret |-> p.err, bat_status |-> battery_status, calls |-> <<>>]
    ELSE [ret |-> Len(buf), bat_status |-> u.bat_status, calls |-> s.calls \o u.calls]

\* calibration_mode_store(driver, buf, count)
calibration_mode_store(buf, r21, r20) ==
    calibration_mode_store_(buf, kstrtobool(buf),
                            set_battery_health_control(CALIBRATION_MODE,
                                                       kstrtobool(buf).val, r21),
                            update_state(r20))

(***************************************************************************)
(* System control mode.                                                    *)
(***************************************************************************)
\* system_control_mode_store with control_mode assigned before the result of
\* ec_write is looked at (the order of usb_charge_mode_store)
system_control_mode_store_cache_first(buf, p, w) ==
    IF control_mode < 0
    THEN [ret |-> 0, control_mode |-> control_mode, ec |-> ec, calls |-> <<>>]
    ELSE IF p.err # 0
    THEN [ret |-> p.err, control_mode |-> control_mode, ec |-> ec, calls |-> <<>>]
    ELSE IF p.val < SYSTEM_CONTROL_BALANCED \/ p.val > SYSTEM_CONTROL_PERFORMANCE
    THEN [ret |-> -EINVAL, control_mode |-> control_mode, ec |-> ec, calls |-> <<>>]
    ELSE [ret |-> IF w.err < 0 THEN w.err ELSE Len(buf), control_mode |-> p.val,
          ec |-> w.ec, calls |-> w.calls]

\* p is what kstrtoint returned, w what ec_write did
system_control_mode_store_(buf, p, w) ==
    IF control_mode < 0
    THEN [ret |-> 0, control_mode |-> control_mode, ec |-> ec, calls |-> <<>>]
    ELSE IF p.err # 0
    THEN [ret |-> p.err, control_mode |-> control_mode, ec |-> ec, calls |-> <<>>]
    ELSE IF p.val < SYSTEM_CONTROL_BALANCED \/ p.val > SYSTEM_CONTROL_PERFORMANCE
    THEN [ret |-> -EINVAL, control_mode |-> control_mode, ec |-> ec, calls |-> <<>>]
    ELSE IF w.err < 0
    THEN [ret |-> w.err, control_mode |-> control_mode, ec |-> w.ec, calls |-> w.calls]
    ELSE [ret |-> Len(buf), control_mode |-> p.val, ec |-> w.ec, calls |-> w.calls]

\* system_control_mode_store(driver, buf, count); ew is what ec_write returns
system_control_mode_store(buf, ew) ==
    system_control_mode_store_(buf, kstrtoint(buf),
        ec_write(ec, ACER_SYSTEM_CONTROL_MODE_EC_OFFSET, kstrtoint(buf).val, ew))

\* r is what ec_read did, w what ec_write did
acer_system_control_mode_init_(cm, reg, param, r, w) ==
    IF r.err < 0
    THEN [ret |-> r.err, control_mode |-> cm, ec |-> reg, calls |-> r.calls]
    ELSE IF param >= 0
    THEN IF param < SYSTEM_CONTROL_BALANCED \/ param > SYSTEM_CONTROL_PERFORMANCE
         THEN [ret |-> -EINVAL, control_mode |-> r.val, ec |-> reg, calls |-> r.calls]
         ELSE IF w.err < 0
         THEN [ret |-> w.err, control_mode |-> r.val, ec |-> w.ec,
               calls |-> r.calls \o w.calls]
         ELSE [ret |-> 0, control_mode |-> param, ec |-> w.ec,
               calls |-> r.calls \o w.calls]
    ELSE [ret |-> 0, control_mode |-> r.val, ec |-> reg, calls |-> r.calls]

\* acer_system_control_mode_init() entered with control_mode = cm and the
\* register holding reg; param is enable_system_control_mode, er and ew are what
\* ec_read and ec_write return.  system_control_mode_inited is 1 afterwards.
acer_system_control_mode_init(cm, reg, param, er, ew) ==
    acer_system_control_mode_init_(cm, reg, param,
        ec_read(reg, ACER_SYSTEM_CONTROL_MODE_EC_OFFSET, er),
        ec_write(reg, ACER_SYSTEM_CONTROL_MODE_EC_OFFSET, param, ew))

(***************************************************************************)
(* USB charge mode and limit.                                              *)
(***************************************************************************)
\* the switch of init_usb_charge_mode on the operand the firmware reports
usb_charge_mode_of(result) ==
    CASE result = 663296 -> 0
      [] result \in {659200, 1314560, 1969920} -> 1
      [] OTHER -> -1

\* x is what acer_wmi_apgeaction_exec_u64 returned
init_usb_charge_mode_(q, x) ==
    IF quirk_entry(q).usb_charge_mode = 0
    THEN [usb_charge_mode_enable |-> usb_charge_mode_enable, calls |-> <<>>]
    ELSE IF ~has_guid[WMI_GUID2]
    THEN [usb_charge_mode_enable |-> usb_charge_mode_enable, calls |-> <<>>]
    ELSE IF ACPI_FAILURE(x.status)
    THEN [usb_charge_mode_enable |-> usb_charge_mode_enable, calls |-> x.calls]
    ELSE [usb_charge_mode_enable |-> usb_charge_mode_of(x.out), calls |-> x.calls]

\* init_usb_charge_mode() with quirks = q: usb_charge_mode_enable afterwards
init_usb_charge_mode(q, rB) ==
    init_usb_charge_mode_(q, acer_wmi_apgeaction_exec_u64(ACER_WMID_GET_FUNCTION, 4, rB))

\* the switch of usb_charge_mode_store sending the operand the get function
\* reports for "off"
usb_charge_mode_operand_as_reported(val) ==
    CASE val = 0 -> 663296
      [] val = 1 -> 1969924
      [] OTHER -> 0

\* the switch of usb_charge_mode_store on the value read: the operand, 0 for none
usb_charge_mode_operand(val) ==
    CASE val = 0 -> 663300
      [] val = 1 -> 1969924
      [] OTHER -> 0

\* usb_charge_mode_store without its check of quirks->usb_charge_mode
usb_charge_mode_store_any_quirk(buf, sc, x) ==
    IF sc.num # 1
    THEN [ret |-> -EINVAL, usb_charge_mode_enable |-> usb_charge_mode_enable,
          calls |-> <<>>]
    ELSE IF sc.val \notin {0, 1}
    THEN [ret |-> -EINVAL, usb_charge_mode_enable |-> usb_charge_mode_enable,
          calls |-> <<>>]
    ELSE IF ACPI_FAILURE(x.status)
    THEN [ret |-> -ENODEV, usb_charge_mode_enable |-> sc.val, calls |-> x.calls]
    ELSE [ret |-> Len(buf), usb_charge_mode_enable |-> sc.val, calls |-> x.calls]

\* sc is what sscanf returned, x what acer_wmi_apgeaction_exec_u64 returned
usb_charge_mode_store_(buf, sc, x) ==
    IF quirk_entry(quirks).usb_charge_mode = 0
    THEN [ret |-> -EOPNOTSUPP, usb_charge_mode_enable |-> usb_charge_mode_enable,
          calls |-> <<>>]
    ELSE IF sc.num # 1
    THEN [ret |-> -EINVAL, usb_charge_mode_enable |-> usb_charge_mode_enable,
          calls |-> <<>>]
    ELSE IF sc.val \notin {0, 1}
    THEN [ret |-> -EINVAL, usb_charge_mode_enable |-> usb_charge_mode_enable,
          calls |-> <<>>]
    ELSE IF ACPI_FAILURE(x.status)
    THEN [ret |-> -ENODEV, usb_charge_mode_enable |-> sc.val, calls |-> x.calls]
    ELSE [ret |-> Len(buf), usb_charge_mode_enable |-> sc.val, calls |-> x.calls]

\* usb_charge_mode_store(driver, buf, count)
usb_charge_mode_store(buf, rB) ==
    usb_charge_mode_store_(buf, sscanf_hhd(buf),
        acer_wmi_apgeaction_exec_u64(ACER_WMID_SET_FUNCTION,
                                     usb_charge_mode_operand(sscanf_hhd(buf).val), rB))

\* the switch of usb_charge_limit_show on the operand the firmware reports
usb_charge_limit_of(result) ==
    CASE result = 659200 -> 10
      [] result = 1314560 -> 20
      [] result = 1969920 -> 30
      [] OTHER -> -1

\* x is what acer_wmi_apgeaction_exec_u64 returned, text what sprintf writes
usb_charge_limit_show_(x, text) ==
    IF quirk_entry(quirks).usb_charge_mode = 0
    THEN [ret |-> -EOPNOTSUPP, out |-> <<>>, calls |-> <<>>]
    ELSE IF ACPI_FAILURE(x.status)
    THEN [ret |-> -ENODEV, out |-> <<>>, calls |-> x.calls]
    ELSE [ret |-> Len(text), out |-> text, calls |-> x.calls]

\* usb_charge_limit_show(driver, buf)
usb_charge_limit_show(rB) ==
    usb_charge_limit_show_(
        acer_wmi_apgeaction_exec_u64(ACER_WMID_GET_FUNCTION, 4, rB),
        sprintf_d(usb_charge_limit_of(
            acer_wmi_apgeaction_exec_u64(ACER_WMID_GET_FUNCTION, 4, rB).out)))

\* the switch of usb_charge_limit_store on the value read: the operand, 0 for none
usb_charge_limit_operand(val) ==
    CASE val = 10 -> 659204
      [] val = 20 -> 1314564
      [] val = 30 -> 1969924
      [] OTHER -> 0

\* usb_charge_limit_store without its check of usb_charge_mode_enable
usb_charge_limit_store_any_mode(buf, sc, x) ==
    IF quirk_entry(quirks).usb_charge_mode = 0
    THEN [ret |-> -EOPNOTSUPP, calls |-> <<>>]
    ELSE IF sc.num # 1 THEN [ret |-> -EINVAL, calls |-> <<>>]
    ELSE IF usb_charge_limit_operand(sc.val) = 0 THEN [ret |-> -EINVAL, calls |-> <<>>]
    ELSE IF ACPI_FAILURE(x.status) THEN [ret |-> -ENODEV, calls |-> x.calls]
    ELSE [ret |-> Len(buf), calls |-> x.calls]

\* sc is what sscanf returned, x what acer_wmi_apgeaction_exec_u64 returned
usb_charge_limit_store_(buf, sc, x) ==
    IF quirk_entry(quirks).usb_charge_mode = 0
    THEN [ret |-> -EOPNOTSUPP, calls |-> <<>>]
    ELSE IF usb_charge_mode_enable = 0 THEN [ret |-> -EINVAL, calls |-> <<>>]
    ELSE IF sc.num # 1 THEN [ret |-> -EINVAL, calls |-> <<>>]
    ELSE IF usb_charge_limit_operand(sc.val) = 0 THEN [ret |-> -EINVAL, calls |-> <<>>]
    ELSE IF ACPI_FAILURE(x.status) THEN [ret |-> -ENODEV, calls |-> x.calls]
    ELSE [ret |-> Len(buf), calls |-> x.calls]

\* usb_charge_limit_store(driver, buf, count)
usb_charge_limit_store(buf, rB) ==
    usb_charge_limit_store_(buf, sscanf_hhd(buf),
        acer_wmi_apgeaction_exec_u64(ACER_WMID_SET_FUNCTION,
                                     usb_charge_limit_operand(sscanf_hhd(buf).val), rB))

(***************************************************************************)
(* Platform profile.                                                       *)
(***************************************************************************)
ProfileChoices ==
    {"PLATFORM_PROFILE_LOW_POWER", "PLATFORM_PROFILE_BALANCED",
     "PLATFORM_PROFILE_PERFORMANCE"}

\* the system control mode's globals, as a record g, for the code that runs
\* several times within one handler
Globals ==
    [system_control_mode_inited |-> system_control_mode_inited,
     control_mode |-> control_mode, ec |-> ec]

\* the globals after acer_system_control_mode_init returned i
inited_globals(i) ==
    [system_control_mode_inited |-> 1, control_mode |-> i.control_mode, ec |-> i.ec]

\* i is what acer_system_control_mode_init did, if it ran
acer_platform_profile_probe_(g, i) ==
    IF quirk_entry(quirks).system_control_mode = 0
    THEN [ret |-> -EOPNOTSUPP, choices |-> {}, g |-> g, calls |-> <<>>]
    ELSE IF g.system_control_mode_inited = 0
    THEN [ret |-> i.ret, choices |-> IF i.ret # 0 THEN {} ELSE ProfileChoices,
          g |-> inited_globals(i), calls |-> i.calls]
    ELSE [ret |-> 0, choices |-> ProfileChoices, g |-> g, calls |-> <<>>]

\* acer_platform_profile_probe(drvdata, choices) entered with the globals g;
\* param, er, ew are what the one-time initialization reads, if it runs
acer_platform_profile_probe(g, param, er, ew) ==
    acer_platform_profile_probe_(g,
        acer_system_control_mode_init(g.control_mode, g.ec, param, er, ew))

\* acer_platform_profile_get(dev, profile)
acer_platform_profile_get ==
    CASE control_mode = SYSTEM_CONTROL_BALANCED ->
             [ret |-> 0, profile |-> "PLATFORM_PROFILE_BALANCED"]
      [] control_mode = SYSTEM_CONTROL_PERFORMANCE ->
             [ret |-> 0, profile |-> "PLATFORM_PROFILE_PERFORMANCE"]
      [] control_mode = SYSTEM_CONTROL_SILENT ->
             [ret |-> 0, profile |-> "PLATFORM_PROFILE_LOW_POWER"]
      [] OTHER -> [ret |-> -EOPNOTSUPP, profile |-> "none"]

\* the switch of acer_platform_profile_set with two cases exchanged
new_mode_of_exchanged(profile) ==
    CASE profile = "PLATFORM_PROFILE_BALANCED" -> SYSTEM_CONTROL_BALANCED
      [] profile = "PLATFORM_PROFILE_PERFORMANCE" -> SYSTEM_CONTROL_SILENT
      [] profile = "PLATFORM_PROFILE_LOW_POWER" -> SYSTEM_CONTROL_PERFORMANCE
      [] OTHER -> 0

\* the switch of acer_platform_profile_set: the mode of a profile, 0 for none
new_mode_of(profile) ==
    CASE profile = "PLATFORM_PROFILE_BALANCED" -> SYSTEM_CONTROL_BALANCED
      [] profile = "PLATFORM_PROFILE_PERFORMANCE" -> SYSTEM_CONTROL_PERFORMANCE
      [] profile = "PLATFORM_PROFILE_LOW_POWER" -> SYSTEM_CONTROL_SILENT
      [] OTHER -> 0

\* w is what ec_write did
acer_platform_profile_set_(new_mode, w) ==
    IF quirk_entry(quirks).system_control_mode = 0
    THEN [ret |-> -EOPNOTSUPP, control_mode |-> control_mode, ec |-> ec, calls |-> <<>>]
    ELSE IF new_mode = 0
    THEN [ret |-> -EOPNOTSUPP, control_mode |-> control_mode, ec |-> ec, calls |-> <<>>]
    ELSE IF new_mode = control_mode
    THEN [ret |-> 0, control_mode |-> control_mode, ec |-> ec, calls |-> <<>>]
    ELSE IF w.err < 0
    THEN [ret |-> w.err, control_mode |-> control_mode, ec |-> w.ec, calls |-> w.calls]
    ELSE [ret |-> 0, control_mode |-> new_mode, ec |-> w.ec, calls |-> w.calls]

\* acer_platform_profile_set(dev, profile); ew is what ec_write returns
acer_platform_profile_set(profile, ew) ==
    acer_platform_profile_set_(new_mode_of(profile),
        ec_write(ec, ACER_SYSTEM_CONTROL_MODE_EC_OFFSET, new_mode_of(profile), ew))

\* the device or ERR_PTR the framework returns: the probe's error, else its own
registered(pr, outcome) == IF pr.ret # 0 THEN pr.ret ELSE outcome

\* pr is what the probe callback did
devm_platform_profile_register_(g, attempt, outcome, pr) ==
    IF outcome = -ENOMEM
    THEN [dev |-> outcome, g |-> g,
          calls |-> <<Call("devm_platform_profile_register", <<attempt, outcome>>,
                           "AE_ERROR")>>]
    ELSE [dev |-> registered(pr, outcome), g |-> pr.g,
          calls |-> pr.calls
                    \o <<Call("probe", <<pr.ret>>,
                              IF pr.ret = 0 THEN "AE_OK" ELSE "AE_ERROR"),
                         Call("devm_platform_profile_register",
                              <<attempt, registered(pr, outcome)>>,
                              IF registered(pr, outcome) = 0 THEN "AE_OK" ELSE "AE_ERROR")>>]

\* devm_platform_profile_register(...) of the profile framework, which calls the
\* probe callback: outcome is 0 when the framework itself succeeds, -ENOMEM when
\* it fails before the probe, another error when it fails after it.
\* dev is 0 for a device, the error of an ERR_PTR otherwise.
devm_platform_profile_register(g, attempt, outcome, param, er, ew) ==
    devm_platform_profile_register_(g, attempt, outcome,
                                    acer_platform_profile_probe(g, param, er, ew))

min(a, b) == IF a < b THEN a ELSE b

\* the backoff without the cap of 1000 on delay_ms
backoff_uncapped(attempt, delay_ms) ==
    IF attempt < max_retries
    THEN [delay_ms |-> delay_ms * 2,
          calls |-> <<Call("msleep", <<delay_ms>>, "AE_OK")>>]
    ELSE [delay_ms |-> delay_ms, calls |-> <<>>]

\* the backoff that sleeps after the last attempt too
backoff_after_last(attempt, delay_ms) ==
    [delay_ms |-> min(delay_ms * 2, 1000),
     calls |-> <<Call("msleep", <<delay_ms>>, "AE_OK")>>]

\* msleep(delay_ms) and the doubling of delay_ms, when another attempt follows
backoff(attempt, delay_ms) ==
    IF attempt < max_retries
    THEN [delay_ms |-> min(delay_ms * 2, 1000),
          calls |-> <<Call("msleep", <<delay_ms>>, "AE_OK")>>]
    ELSE [delay_ms |-> delay_ms, calls |-> <<>>]

\* the for loop of acer_platform_profile_setup from `attempt` on; device is
\* platform_profile_device, outcomes[i] what the framework does at attempt i,
\* lazy what the one-time initialization reads
RECURSIVE register_loop(_, _, _, _, _, _, _)
\* r is what devm_platform_profile_register did, b the backoff that follows
register_loop_(attempt, outcomes, lazy, calls, r, b) ==
    IF r.dev = 0
    THEN [ret |-> 0, platform_profile_support |-> TRUE, g |-> r.g,
          calls |-> calls \o r.calls]
    ELSE register_loop(attempt + 1, b.delay_ms, r.g, r.dev, outcomes, lazy,
                       calls \o r.calls \o b.calls)

register_loop(attempt, delay_ms, g, device, outcomes, lazy, calls) ==
    IF attempt > max_retries
    THEN [ret |-> device, platform_profile_support |-> platform_profile_support,
          g |-> g, calls |-> calls]
    ELSE register_loop_(attempt, outcomes, lazy, calls,
             devm_platform_profile_register(g, attempt, outcomes[attempt],
                                            lazy.param, lazy.er, lazy.ew),
             backoff(attempt, delay_ms))

\* acer_platform_profile_setup(pdev)
acer_platform_profile_setup(outcomes, lazy) ==
    IF quirk_entry(quirks).system_control_mode = 0
    THEN [ret |-> 0, platform_profile_support |-> platform_profile_support,
          g |-> Globals, calls |-> <<>>]
    ELSE register_loop(1, 100, Globals, 0, outcomes, lazy, <<>>)

(***************************************************************************)
(* Module initialization.                                                  *)
(***************************************************************************)
\* the part of acer_wmi_ext_init on WMI_GUID1: s is what
\* set_battery_health_control returned, i what init_state did
init_battery(health, s, i) ==
    IF ~has_guid[WMI_GUID1]
    THEN [ret |-> 0, bat_status |-> battery_status, calls |-> <<>>]
    ELSE IF health >= 0 /\ ACPI_FAILURE(s.status)
    THEN [ret |-> -EIO, bat_status |-> battery_status, calls |-> s.calls]
    ELSE IF ACPI_FAILURE(i.status)
    THEN [ret |-> -EIO, bat_status |-> battery_status,
          calls |-> (IF health >= 0 THEN s.calls ELSE <<>>) \o i.calls]
    ELSE [ret |-> 0, bat_status |-> i.bat_status,
          calls |-> (IF health >= 0 THEN s.calls ELSE <<>>) \o i.calls]

\* the part of acer_wmi_ext_init on the system control mode: c is what
\* acer_system_control_mode_init did
init_scm(q, c) ==
    IF quirk_entry(q).system_control_mode # 0
    THEN [system_control_mode_inited |-> 1, control_mode |-> c.control_mode,
          ec |-> c.ec, calls |-> c.calls]
    ELSE [system_control_mode_inited |-> system_control_mode_inited,
          control_mode |-> control_mode, ec |-> ec, calls |-> <<>>]

\* the part of acer_wmi_ext_init on the USB charge mode: u is what
\* init_usb_charge_mode did
init_usb(q, u) ==
    IF quirk_entry(q).usb_charge_mode # 0 THEN u
    ELSE [usb_charge_mode_enable |-> usb_charge_mode_enable, calls |-> <<>>]

\* b, c, u are the three parts, plat what registering the platform driver and
\* device returns
acer_wmi_ext_init_(q, b, c, u, plat) ==
    IF b.ret # 0
    THEN [ret |-> b.ret, quirks |-> q, bat_status |-> battery_status,
          system_control_mode_inited |-> system_control_mode_inited,
          control_mode |-> control_mode, ec |-> ec,
          usb_charge_mode_enable |-> usb_charge_mode_enable, calls |-> b.calls]
    ELSE [ret |-> plat, quirks |-> q, bat_status |-> b.bat_status,
          system_control_mode_inited |-> c.system_control_mode_inited,
          control_mode |-> c.control_mode, ec |-> c.ec,
          usb_charge_mode_enable |-> u.usb_charge_mode_enable,
          calls |-> b.calls \o c.calls \o u.calls]

\* acer_wmi_ext_init() up to platform_device_add, which runs the platform
\* probe (acer_platform_profile_setup): q is what find_quirks chose, health and
\* scm the module parameters enable_health_mode and enable_system_control_mode,
\* the rest what the firmware and the EC answer
acer_wmi_ext_init(q, health, scm, r21, r20, er, ew, rB, plat) ==
    acer_wmi_ext_init_(q,
        init_battery(health, set_battery_health_control(HEALTH_MODE, health # 0, r21),
                     init_state(r20)),
        init_scm(q, acer_system_control_mode_init(control_mode, ec, scm, er, ew)),
        init_usb(q, init_usb_charge_mode(q, rB)),
        plat)

(***************************************************************************)
(* Inputs.                                                                 *)
(***************************************************************************)
\* what is written to health_mode and calibration_mode
BoolBufs == {<<"1">>, <<"0", "\n">>, <<"o", "n">>, <<"x">>}
\* what is written to system_control_mode
ModeBufs == {<<"1">>, <<"2", "\n">>, <<"3">>, <<"0">>, <<"4">>, <<"2", "x">>}
\* what is written to usb_charge_mode
UsbModeBufs == {<<"0">>, <<"1", "\n">>, <<"2">>, <<"2", "5", "6">>, <<"x">>}
\* what is written to usb_charge_limit
UsbLimitBufs ==
    {<<"1", "0">>, <<"2", "0", "\n">>, <<"3", "0">>, <<"1", "5">>, <<"0">>,
     <<"2", "6", "6">>, <<"-", "2", "3", "6">>, <<"x">>}
\* the profiles the framework may ask for
Profiles == ProfileChoices \cup {"PLATFORM_PROFILE_QUIET"}
\* the machines: DMI vendor and product
Machines ==
    IF focus = "battery" THEN {<<"Acer", "Swift SFG14-73">>}
    ELSE {<<"Acer", "Swift SFG14-73">>, <<"Acer", "Aspire">>}
\* the namespaces a device may have
Namespaces ==
    {h \in [{WMI_GUID1, WMI_GUID2} -> BOOLEAN] :
        /\ focus # "battery" => h[WMI_GUID1]
        /\ focus # "usb" => h[WMI_GUID2]}
\* the module parameters enable_health_mode and enable_system_control_mode
HealthParams == IF focus = "battery" THEN {-1, 0, 1} ELSE {-1}
ScmParams == IF focus = "scm" THEN {-1, 0, 1, 2, 3, 4} ELSE {-1}
\* the errors of the profile framework, and how many attempts it lets fail
RegErrors == {-ENOMEM, -EBUSY}
RegFailures == IF focus = "scm" THEN 0..max_retries ELSE {0}
\* what registering the platform driver and device returns
PlatResults == {0, -ENOMEM}

\* the inputs of S when the code reads one, a fixed one when it does not
Pick(read, S) == IF read THEN S ELSE {CHOOSE x \in S : TRUE}

\* the record of a handler that ran
Op(name, buf, arg, ret, out, calls) ==
    [name |-> name, buf |-> buf, arg |-> arg, ret |-> ret, out |-> out, calls |-> calls]

\* the two threads of SpecRefresh before either ran: w is where the refreshing
\* thread stands, old and new battery_status before and after its refresh, r
\* where the reading thread stands, seen what it read
NoThread ==
    [w |-> "idle", old |-> [health_mode |-> 0, calibration_mode |-> 0],
     new |-> [health_mode |-> 0, calibration_mode |-> 0],
     r |-> "idle", seen |-> [health_mode |-> 0, calibration_mode |-> 0]]

(***************************************************************************)
(* The module, one handler at a time.  An action named A_ is what A does   *)
(* with the result x of its handler.                                       *)
(***************************************************************************)
Init ==
    /\ pc = "load"
    /\ focus \in Focus
    /\ has_guid \in Namespaces
    /\ ec \in EcBytes
    /\ quirks = "NULL"
    /\ battery_status = [health_mode |-> 0, calibration_mode |-> 0]
    /\ control_mode = -1
    /\ usb_charge_mode_enable = 0
    /\ system_control_mode_inited = 0
    /\ platform_profile_support = FALSE
    /\ op = Op("none", <<>>, <<>>, 0, <<>>, <<>>)
    /\ thr = NoThread

ModuleInit_(health, scm, x) ==
    /\ quirks' = x.quirks
    /\ battery_status' = x.bat_status
    /\ system_control_mode_inited' = x.system_control_mode_inited
    /\ control_mode' = x.control_mode
    /\ ec' = x.ec
    /\ usb_charge_mode_enable' = x.usb_charge_mode_enable
    /\ op' = Op("acer_wmi_ext_init", <<>>, <<health, scm>>, x.ret, <<>>, x.calls)
    /\ pc' = IF x.ret = 0 THEN "setup" ELSE "failed"
    /\ UNCHANGED <<has_guid, platform_profile_support, focus, thr>>

\* module_init(acer_wmi_ext_init)
ModuleInit ==
    /\ pc = "load"
    /\ \E dmi \in Machines, health \in HealthParams, scm \in ScmParams,
          plat \in PlatResults, er \in EcResults, ew \in EcResults :
         \E r21 \in Pick(health >= 0, Responses21), r20 \in Responses20,
            rB \in ResponsesB :
              ModuleInit_(health, scm,
                  acer_wmi_ext_init(find_quirks(dmi[1], dmi[2]), health, scm,
                                    r21, r20, er, ew, rB, plat))

ProfileSetup_(x) ==
    /\ platform_profile_support' = x.platform_profile_support
    /\ system_control_mode_inited' = x.g.system_control_mode_inited
    /\ control_mode' = x.g.control_mode
    /\ ec' = x.g.ec
    /\ op' = Op("acer_platform_profile_setup", <<>>, <<>>, x.ret, <<>>, x.calls)
    /\ pc' = "running"
    /\ UNCHANGED <<has_guid, quirks, battery_status, usb_charge_mode_enable, focus, thr>>

\* the attempts 1..k-1 fail with e1, attempt k with e2, the next succeeds
Outcomes(k, e1, e2) ==
    [i \in 1..max_retries |-> IF i < k THEN e1 ELSE IF i = k THEN e2 ELSE 0]

\* acer_ext_platform_probe(device)
ProfileSetup ==
    /\ pc = "setup"
    /\ \E k \in RegFailures, e1 \in RegErrors, e2 \in RegErrors,
          param \in Pick(system_control_mode_inited = 0, ScmParams),
          er \in Pick(system_control_mode_inited = 0, EcResults),
          ew \in Pick(system_control_mode_inited = 0, EcResults) :
         ProfileSetup_(acer_platform_profile_setup(Outcomes(k, e1, e2),
                           [param |-> param, er |-> er, ew |-> ew]))

\* a show handler returned x: nothing but the record of it changes
Show_(name, x) ==
    /\ op' = Op(name, <<>>, <<>>, x.ret, x.out, <<>>)
    /\ UNCHANGED <<pc, has_guid, ec, quirks, battery_status, control_mode,
                   usb_charge_mode_enable, system_control_mode_inited,
                   platform_profile_support, focus, thr>>

\* cat health_mode
HealthModeShow ==
    /\ pc = "running"
    /\ focus = "battery"
    /\ Show_("health_mode_show", show(battery_status.health_mode))

\* cat calibration_mode
CalibrationModeShow ==
    /\ pc = "running"
    /\ focus = "battery"
    /\ Show_("calibration_mode_show", show(battery_status.calibration_mode))

\* cat system_control_mode
SystemControlModeShow ==
    /\ pc = "running"
    /\ focus = "scm"
    /\ Show_("system_control_mode_show", show(control_mode))

\* cat usb_charge_mode
UsbChargeModeShow ==
    /\ pc = "running"
    /\ focus = "usb"
    /\ Show_("usb_charge_mode_show", show(usb_charge_mode_enable))

BatteryStore_(name, buf, x) ==
    /\ battery_status' = x.bat_status
    /\ op' = Op(name, buf, <<>>, x.ret, <<>>, x.calls)
    /\ UNCHANGED <<pc, has_guid, ec, quirks, control_mode, usb_charge_mode_enable,
                   system_control_mode_inited, platform_profile_support, focus, thr>>

\* echo buf > health_mode
HealthModeStore ==
    /\ pc = "running"
    /\ focus = "battery"
    /\ \E buf \in BoolBufs :
         \E r21 \in Pick(battery_status.health_mode >= 0, Responses21),
            r20 \in Pick(battery_status.health_mode >= 0, Responses20) :
           BatteryStore_("health_mode_store", buf, health_mode_store(buf, r21, r20))

\* echo buf > calibration_mode
CalibrationModeStore ==
    /\ pc = "running"
    /\ focus = "battery"
    /\ \E buf \in BoolBufs :
         \E r21 \in Pick(battery_status.calibration_mode >= 0, Responses21),
            r20 \in Pick(battery_status.calibration_mode >= 0, Responses20) :
           BatteryStore_("calibration_mode_store", buf,
                         calibration_mode_store(buf, r21, r20))

SystemControlModeStore_(buf, x) ==
    /\ control_mode' = x.control_mode
    /\ ec' = x.ec
    /\ op' = Op("system_control_mode_store", buf, <<>>, x.ret, <<>>, x.calls)
    /\ UNCHANGED <<pc, has_guid, quirks, battery_status, usb_charge_mode_enable,
                   system_control_mode_inited, platform_profile_support, focus, thr>>

\* echo buf > system_control_mode
SystemControlModeStore ==
    /\ pc = "running"
    /\ focus = "scm"
    /\ \E buf \in ModeBufs, ew \in EcResults :
         SystemControlModeStore_(buf, system_control_mode_store(buf, ew))

UsbChargeModeStore_(buf, x) ==
    /\ usb_charge_mode_enable' = x.usb_charge_mode_enable
    /\ op' = Op("usb_charge_mode_store", buf, <<>>, x.ret, <<>>, x.calls)
    /\ UNCHANGED <<pc, has_guid, ec, quirks, battery_status, control_mode,
                   system_control_mode_inited, platform_profile_support, focus, thr>>

\* echo buf > usb_charge_mode
UsbChargeModeStore ==
    /\ pc = "running"
    /\ focus = "usb"
    /\ \E buf \in UsbModeBufs, rB \in ResponsesB :
         UsbChargeModeStore_(buf, usb_charge_mode_store(buf, rB))

UsbChargeLimitShow_(x) ==
    /\ op' = Op("usb_charge_limit_show", <<>>, <<>>, x.ret, x.out, x.calls)
    /\ UNCHANGED <<pc, has_guid, ec, quirks, battery_status, control_mode,
                   usb_charge_mode_enable, system_control_mode_inited,
                   platform_profile_support, focus, thr>>

\* cat usb_charge_limit
UsbChargeLimitShow ==
    /\ pc = "running"
    /\ focus = "usb"
    /\ \E rB \in ResponsesB : UsbChargeLimitShow_(usb_charge_limit_show(rB))

UsbChargeLimitStore_(buf, x) ==
    /\ op' = Op("usb_charge_limit_store", buf, <<>>, x.ret, <<>>, x.calls)
    /\ UNCHANGED <<pc, has_guid, ec, quirks, battery_status, control_mode,
                   usb_charge_mode_enable, system_control_mode_inited,
                   platform_profile_support, focus, thr>>

\* echo buf > usb_charge_limit
UsbChargeLimitStore ==
    /\ pc = "running"
    /\ focus = "usb"
    /\ \E buf \in UsbLimitBufs, rB \in ResponsesB :
         UsbChargeLimitStore_(buf, usb_charge_limit_store(buf, rB))

ProfileGet_(x) ==
    /\ op' = Op("acer_platform_profile_get", <<>>, <<>>, x.ret, <<x.profile>>, <<>>)
    /\ UNCHANGED <<pc, has_guid, ec, quirks, battery_status, control_mode,
                   usb_charge_mode_enable, system_control_mode_inited,
                   platform_profile_support, focus, thr>>

\* the framework reads the profile (registered profiles only)
ProfileGet ==
    /\ pc = "running"
    /\ focus = "scm"
    /\ platform_profile_support
    /\ ProfileGet_(acer_platform_profile_get)

ProfileSet_(profile, x) ==
    /\ control_mode' = x.control_mode
    /\ ec' = x.ec
    /\ op' = Op("acer_platform_profile_set", <<>>, <<profile>>, x.ret, <<>>, x.calls)
    /\ UNCHANGED <<pc, has_guid, quirks, battery_status, usb_charge_mode_enable,
                   system_control_mode_inited, platform_profile_support, focus, thr>>

\* the framework sets the profile (registered profiles only)
ProfileSet ==
    /\ pc = "running"
    /\ focus = "scm"
    /\ platform_profile_support
    /\ \E profile \in Profiles, ew \in EcResults :
         ProfileSet_(profile, acer_platform_profile_set(profile, ew))

Next ==
    \/ ModuleInit
    \/ ProfileSetup
    \/ HealthModeShow
    \/ HealthModeStore
    \/ CalibrationModeShow
    \/ CalibrationModeStore
    \/ SystemControlModeShow
    \/ SystemControlModeStore
    \/ UsbChargeModeShow
    \/ UsbChargeModeStore
    \/ UsbChargeLimitShow
    \/ UsbChargeLimitStore
    \/ ProfileGet
    \/ ProfileSet

Spec == Init /\ [][Next]_vars

(***************************************************************************)
(* Two store handlers at once.  sysfs serializes nothing between two open  *)
(* files and the driver takes no lock, so update_state() of one writer     *)
(* runs while another thread reads battery_status.  The refreshing thread  *)
(* is cut at its two stores to battery_status (lines 233 and 236); the     *)
(* reading thread copies the structure in one step (old_state =            *)
(* battery_status, line 328), the most a reader can have.                  *)
(***************************************************************************)
RefreshBegin_(u) ==
    /\ thr' = [w |-> IF ACPI_FAILURE(u.status) THEN "idle" ELSE "write_health",
               old |-> battery_status, new |-> u.bat_status,
               r |-> "idle", seen |-> battery_status]
    /\ UNCHANGED <<pc, has_guid, ec, quirks, battery_status, control_mode,
                   usb_charge_mode_enable, system_control_mode_inited,
                   platform_profile_support, op, focus>>

\* a store handler got past its gate and its set call, entered update_state and
\* get_battery_health_control_status, and the firmware answered method 20
RefreshBegin ==
    /\ pc = "running"
    /\ thr.w = "idle"
    /\ battery_status.health_mode >= 0 \/ battery_status.calibration_mode >= 0
    /\ \E r20 \in Responses20 : RefreshBegin_(update_state(r20))

\* bat_status->health_mode = ...
RefreshWriteHealth ==
    /\ thr.w = "write_health"
    /\ battery_status' = [battery_status EXCEPT !.health_mode = thr.new.health_mode]
    /\ thr' = [thr EXCEPT !.w = "write_calibration"]
    /\ UNCHANGED <<pc, has_guid, ec, quirks, control_mode, usb_charge_mode_enable,
                   system_control_mode_inited, platform_profile_support, op, focus>>

\* bat_status->calibration_mode = ...
RefreshWriteCalibration ==
    /\ thr.w = "write_calibration"
    /\ battery_status' =
           [battery_status EXCEPT !.calibration_mode = thr.new.calibration_mode]
    /\ thr' = [thr EXCEPT !.w = "idle"]
    /\ UNCHANGED <<pc, has_guid, ec, quirks, control_mode, usb_charge_mode_enable,
                   system_control_mode_inited, platform_profile_support, op, focus>>

\* struct battery_info old_state = battery_status, in another thread, while
\* the refresh is under way
ReaderSnapshot ==
    /\ thr.w # "idle"
    /\ thr.r = "idle"
    /\ thr' = [thr EXCEPT !.r = "read", !.seen = battery_status]
    /\ UNCHANGED <<pc, has_guid, ec, quirks, battery_status, control_mode,
                   usb_charge_mode_enable, system_control_mode_inited,
                   platform_profile_support, op, focus>>

InitRefresh == Init /\ focus = "battery"

NextRefresh ==
    \/ ModuleInit
    \/ ProfileSetup
    \/ RefreshBegin
    \/ RefreshWriteHealth
    \/ RefreshWriteCalibration
    \/ ReaderSnapshot

SpecRefresh == InitRefresh /\ [][NextRefresh]_vars

(***************************************************************************)
(* system_control_mode_store and acer_platform_profile_set as two threads. *)
(* Neither takes a lock, so each handler is cut where it touches what the  *)
(* other touches: before ec_write (the gate reads control_mode), at        *)
(* ec_write, and at the assignment of control_mode.  thr.s is where the    *)
(* storing thread stands and thr.p where the profile thread stands:        *)
(* "idle", "write" (about to call ec_write), "assign" (about to assign     *)
(* control_mode), "done" (returned after the assignment) or "returned"     *)
(* (returned on another path).                                             *)
(***************************************************************************)
\* the two threads before either ran: s_val and p_val are param_val and
\* new_mode, s_ret and p_ret what the handlers returned, s_count is count
NoWriters ==
    [s |-> "idle", s_val |-> 0, s_count |-> 0, s_ret |-> 0,
     p |-> "idle", p_val |-> 0, p_ret |-> 0]

\* system_control_mode_store up to its call of ec_write: p is what kstrtoint
\* returned; go tells whether ec_write is reached
system_control_mode_store_gate_(p) ==
    IF control_mode < 0
    THEN [go |-> FALSE, ret |-> 0, val |-> 0]
    ELSE IF p.err # 0
    THEN [go |-> FALSE, ret |-> p.err, val |-> 0]
    ELSE IF p.val < SYSTEM_CONTROL_BALANCED \/ p.val > SYSTEM_CONTROL_PERFORMANCE
    THEN [go |-> FALSE, ret |-> -EINVAL, val |-> 0]
    ELSE [go |-> TRUE, ret |-> 0, val |-> p.val]

system_control_mode_store_gate(buf) == system_control_mode_store_gate_(kstrtoint(buf))

\* acer_platform_profile_set up to its call of ec_write
acer_platform_profile_set_gate_(new_mode) ==
    IF quirk_entry(quirks).system_control_mode = 0
    THEN [go |-> FALSE, ret |-> -EOPNOTSUPP, val |-> 0]
    ELSE IF new_mode = 0
    THEN [go |-> FALSE, ret |-> -EOPNOTSUPP, val |-> 0]
    ELSE IF new_mode = control_mode
    THEN [go |-> FALSE, ret |-> 0, val |-> 0]
    ELSE [go |-> TRUE, ret |-> 0, val |-> new_mode]

acer_platform_profile_set_gate(profile) ==
    acer_platform_profile_set_gate_(new_mode_of(profile))

StoreEnter_(buf, x) ==
    /\ thr' = [thr EXCEPT !.s = IF x.go THEN "write" ELSE "returned",
                          !.s_val = x.val, !.s_count = Len(buf), !.s_ret = x.ret]
    /\ UNCHANGED <<pc, has_guid, ec, quirks, battery_status, control_mode,
                   usb_charge_mode_enable, system_control_mode_inited,
                   platform_profile_support, op, focus>>

\* echo buf > system_control_mode, in the storing thread, up to ec_write
StoreEnter ==
    /\ pc = "running"
    /\ thr.s = "idle"
    /\ \E buf \in ModeBufs : StoreEnter_(buf, system_control_mode_store_gate(buf))

StoreEcWrite_(w) ==
    /\ ec' = w.ec
    /\ thr' = [thr EXCEPT !.s = IF w.err < 0 THEN "returned" ELSE "assign",
                          !.s_ret = w.err]
    /\ UNCHANGED <<pc, has_guid, quirks, battery_status, control_mode,
                   usb_charge_mode_enable, system_control_mode_inited,
                   platform_profile_support, op, focus>>

\* err = ec_write(ACER_SYSTEM_CONTROL_MODE_EC_OFFSET, param_val)
StoreEcWrite ==
    /\ thr.s = "write"
    /\ \E ew \in EcResults :
         StoreEcWrite_(ec_write(ec, ACER_SYSTEM_CONTROL_MODE_EC_OFFSET, thr.s_val, ew))

\* control_mode = param_val; return count
StoreAssign ==
    /\ thr.s = "assign"
    /\ control_mode' = thr.s_val
    /\ thr' = [thr EXCEPT !.s = "done", !.s_ret = thr.s_count]
    /\ UNCHANGED <<pc, has_guid, ec, quirks, battery_status,
                   usb_charge_mode_enable, system_control_mode_inited,
                   platform_profile_support, op, focus>>

SetEnter_(x) ==
    /\ thr' = [thr EXCEPT !.p = IF x.go THEN "write" ELSE "returned",
                          !.p_val = x.val, !.p_ret = x.ret]
    /\ UNCHANGED <<pc, has_guid, ec, quirks, battery_status, control_mode,
                   usb_charge_mode_enable, system_control_mode_inited,
                   platform_profile_support, op, focus>>

\* the framework sets the profile, in the profile thread, up to ec_write
SetEnter ==
    /\ pc = "running"
    /\ platform_profile_support
    /\ thr.p = "idle"
    /\ \E profile \in Profiles : SetEnter_(acer_platform_profile_set_gate(profile))

SetEcWrite_(w) ==
    /\ ec' = w.ec
    /\ thr' = [thr EXCEPT !.p = IF w.err < 0 THEN "returned" ELSE "assign",
                          !.p_ret = w.err]
    /\ UNCHANGED <<pc, has_guid, quirks, battery_status, control_mode,
                   usb_charge_mode_enable, system_control_mode_inited,
                   platform_profile_support, op, focus>>

\* err = ec_write(ACER_SYSTEM_CONTROL_MODE_EC_OFFSET, new_mode)
SetEcWrite ==
    /\ thr.p = "write"
    /\ \E ew \in EcResults :
         SetEcWrite_(ec_write(ec, ACER_SYSTEM_CONTROL_MODE_EC_OFFSET, thr.p_val, ew))

\* control_mode = new_mode; return 0
SetAssign ==
    /\ thr.p = "assign"
    /\ control_mode' = thr.p_val
    /\ thr' = [thr EXCEPT !.p = "done", !.p_ret = 0]
    /\ UNCHANGED <<pc, has_guid, ec, quirks, battery_status,
                   usb_charge_mode_enable, system_control_mode_inited,
                   platform_profile_support, op, focus>>

InitWriters ==
    /\ pc = "load"
    /\ focus = "scm"
    /\ has_guid \in Namespaces
    /\ ec \in EcBytes
    /\ quirks = "NULL"
    /\ battery_status = [health_mode |-> 0, calibration_mode |-> 0]
    /\ control_mode = -1
    /\ usb_charge_mode_enable = 0
    /\ system_control_mode_inited = 0
    /\ platform_profile_support = FALSE
    /\ op = Op("none", <<>>, <<>>, 0, <<>>, <<>>)
    /\ thr = NoWriters

NextWriters ==
    \/ ModuleInit
    \/ ProfileSetup
    \/ StoreEnter
    \/ StoreEcWrite
    \/ StoreAssign
    \/ SetEnter
    \/ SetEcWrite
    \/ SetAssign

SpecWriters == InitWriters /\ [][NextWriters]_vars

(***************************************************************************)
(* What the properties below speak of.                                     *)
(***************************************************************************)
\* the set operations, by the name their action records in op
SetOps ==
    {"health_mode_store", "calibration_mode_store", "usb_charge_mode_store",
     "usb_charge_limit_store", "system_control_mode_store",
     "acer_platform_profile_set"}

\* the call c is the one a set operation issues to write the mode: method 21
\* of WMI_GUID1, the ApgeAction set function of WMI_GUID2, or ec_write
IsSetCall(c) ==
    \/ c.fn = "wmi_A" /\ c.arg[1] = 21
    \/ c.fn = "wmi_B" /\ c.arg[1] = ACER_WMID_SET_FUNCTION
    \/ c.fn = "ec_write"

\* the handler recorded in o issued its write and the write failed
SetCallFailed(o) ==
    \E i \in 1..Len(o.calls) : IsSetCall(o.calls[i]) /\ ACPI_FAILURE(o.calls[i].status)

\* the mode codes of enum system_control_mode
ModeCodes == {SYSTEM_CONTROL_BALANCED, SYSTEM_CONTROL_SILENT, SYSTEM_CONTROL_PERFORMANCE}

\* a bool as the int the cache holds
BoolCode(b) == IF b THEN 1 ELSE 0

\* the firmware accepted a method-21 write: a well-formed 4-byte answer
Accepts21(r) == r.status = "AE_OK" /\ r.type = "buffer" /\ Len(r.bytes) = 4

\* the method-20 answer r is well formed and reports `function` as available
\* with status v (uFunctionStatus[0] is byte 4, uFunctionStatus[1] byte 5)
Reports20(r, function, v) ==
    /\ r.status = "AE_OK" /\ r.type = "buffer" /\ Len(r.bytes) = 8
    /\ Bit(r.bytes[1], function)
    /\ r.bytes[IF function = HEALTH_MODE THEN 4 ELSE 5] = v

\* the method-20 answer r is well formed and reports `function` as not available
Lacks20(r, function) ==
    /\ r.status = "AE_OK" /\ r.type = "buffer" /\ Len(r.bytes) = 8
    /\ ~Bit(r.bytes[1], function)

\* the integer a show handler's text reads as
Shown(x) == kstrtoint(x.out).val

\* the calls of the registration loop recorded in o
RegisterCalls(o) ==
    SelectSeq(o.calls, LAMBDA c : c.fn = "devm_platform_profile_register")
Sleeps(o) == SelectSeq(o.calls, LAMBDA c : c.fn = "msleep")
Timeline(o) ==
    SelectSeq(o.calls, LAMBDA c : c.fn \in {"devm_platform_profile_register", "msleep"})
Succeeded(c) == ~ACPI_FAILURE(c.status)

RECURSIVE Pow2(_)
Pow2(n) == IF n = 0 THEN 1 ELSE 2 * Pow2(n - 1)

\* the i-th delay of the documented schedule: 100, 200, 400, 800, 1000, 1000, ...
Delay(i) == IF 100 * Pow2(i - 1) < 1000 THEN 100 * Pow2(i - 1) ELSE 1000

(***************************************************************************)
(* Properties.                                                             *)
(***************************************************************************)
\* C1: a set operation whose firmware call or EC write fails leaves every
\* cached mode value (battery_status, usb_charge_mode_enable, control_mode) as
\* it was before the operation.
C1_FailedSetKeepsCache ==
    [][(op'.name \in SetOps /\ SetCallFailed(op'))
        => /\ battery_status' = battery_status
           /\ usb_charge_mode_enable' = usb_charge_mode_enable
           /\ control_mode' = control_mode]_vars

\* usb_charge_mode_store "0" failed with -ENODEV and the cache holds the 0
C1_Witness ==
    /\ op.name = "usb_charge_mode_store"
    /\ SetCallFailed(op)
    /\ op.ret = -ENODEV
    /\ sscanf_hhd(op.buf).val = 0
    /\ usb_charge_mode_enable = 0

\* C2: on both entry points (system_control_mode_store, acer_platform_profile_set)
\* a request for the mode that control_mode already holds writes no EC register,
\* returns success and leaves control_mode unchanged.
C2_SetCurrentModeIsNoOp ==
    [][(\/ /\ op'.name = "system_control_mode_store"
           /\ control_mode \in ModeCodes
           /\ kstrtoint(op'.buf).err = 0
           /\ kstrtoint(op'.buf).val = control_mode
        \/ /\ op'.name = "acer_platform_profile_set"
           /\ op'.arg[1] \in ProfileChoices
           /\ new_mode_of(op'.arg[1]) = control_mode)
        => /\ \A i \in 1..Len(op'.calls) : op'.calls[i].fn # "ec_write"
           /\ op'.ret = IF op'.name = "system_control_mode_store"
                        THEN Len(op'.buf) ELSE 0
           /\ control_mode' = control_mode]_vars

\* system_control_mode_store of the cached mode wrote the EC register
C2_Witness ==
    /\ op.name = "system_control_mode_store"
    /\ kstrtoint(op.buf).err = 0
    /\ kstrtoint(op.buf).val = control_mode
    /\ Len(op.calls) = 1
    /\ op.calls[1].fn = "ec_write"
    /\ op.calls[1].arg = <<ACER_SYSTEM_CONTROL_MODE_EC_OFFSET, control_mode>>

\* C3: set(v) then get() returns v, for health mode, calibration mode, USB
\* charge mode and system control mode, from every reachable state in which
\* the mode is supported, v is an accepted value, and the firmware or the EC
\* accepts the write and afterwards reports v.
C3_SetGetRoundTrip ==
    pc = "running" =>
      /\ \A buf \in BoolBufs, r21 \in Responses21, r20 \in Responses20 :
           /\ (/\ battery_status.health_mode >= 0
               /\ kstrtobool(buf).err = 0
               /\ Accepts21(r21)
               /\ Reports20(r20, HEALTH_MODE, BoolCode(kstrtobool(buf).val)))
              => /\ health_mode_store(buf, r21, r20).ret = Len(buf)
                 /\ Shown(show(health_mode_store(buf, r21, r20).bat_status.health_mode))
                      = BoolCode(kstrtobool(buf).val)
           /\ (/\ battery_status.calibration_mode >= 0
               /\ kstrtobool(buf).err = 0
               /\ Accepts21(r21)
               /\ Reports20(r20, CALIBRATION_MODE, BoolCode(kstrtobool(buf).val)))
              => /\ calibration_mode_store(buf, r21, r20).ret = Len(buf)
                 /\ Shown(show(calibration_mode_store(buf, r21, r20)
                                   .bat_status.calibration_mode))
                      = BoolCode(kstrtobool(buf).val)
      /\ \A buf \in UsbModeBufs, rB \in ResponsesB :
           (/\ quirk_entry(quirks).usb_charge_mode # 0
            /\ kstrtoint(buf).err = 0
            /\ kstrtoint(buf).val \in {0, 1}
            /\ ~ACPI_FAILURE(rB.status))
           => /\ usb_charge_mode_store(buf, rB).ret = Len(buf)
              /\ Shown(show(usb_charge_mode_store(buf, rB).usb_charge_mode_enable))
                   = kstrtoint(buf).val
      /\ \A buf \in ModeBufs :
           (/\ control_mode >= 0
            /\ kstrtoint(buf).err = 0
            /\ kstrtoint(buf).val \in ModeCodes)
           => /\ system_control_mode_store(buf, 0).ret = Len(buf)
              /\ Shown(show(system_control_mode_store(buf, 0).control_mode))
                   = kstrtoint(buf).val

\* health_mode_store "1" ran from a cache of 0..1, both firmware calls
\* succeeded, and the cache holds 1
C3_Witness ==
    /\ op.name = "health_mode_store"
    /\ kstrtobool(op.buf).val
    /\ op.ret = Len(op.buf)
    /\ Len(op.calls) = 2
    /\ \A i \in 1..2 : Succeeded(op.calls[i])
    /\ Shown(show(battery_status.health_mode)) = 1

\* C4: with a mode's capability disabled (usb_charge_mode quirk 0,
\* system_control_mode quirk 0, or the battery function's bit missing from
\* uFunctionList) the mode's show handler returns -1, in every state.
C4_DisabledReadsUnknown ==
    /\ (op.name = "usb_charge_mode_show" /\ quirk_entry(quirks).usb_charge_mode = 0)
       => Shown(op) = -1
    /\ (op.name = "system_control_mode_show"
        /\ quirk_entry(quirks).system_control_mode = 0)
       => Shown(op) = -1
    /\ pc = "running" =>
         \A r20 \in Responses20 :
           /\ Lacks20(r20, HEALTH_MODE)
              => Shown(show(update_state(r20).bat_status.health_mode)) = -1
           /\ Lacks20(r20, CALIBRATION_MODE)
              => Shown(show(update_state(r20).bat_status.calibration_mode)) = -1

\* usb_charge_mode_show ran with the quirk off and returned 0
C4_Witness ==
    /\ op.name = "usb_charge_mode_show"
    /\ quirk_entry(quirks).usb_charge_mode = 0
    /\ Shown(op) = 0

\* C5: with the usb_charge_mode quirk on and usb_charge_mode_enable = 0,
\* usb_charge_limit_store of 10, 20 or 30 returns -EINVAL (the invalid-state
\* error), calls no method of WMI_GUID2 and changes no cached value.
C5_LimitRejectedWhileOff ==
    [][(/\ op'.name = "usb_charge_limit_store"
        /\ quirk_entry(quirks).usb_charge_mode # 0
        /\ usb_charge_mode_enable = 0
        /\ kstrtoint(op'.buf).err = 0
        /\ kstrtoint(op'.buf).val \in {10, 20, 30})
        => /\ op'.ret = -EINVAL
           /\ op'.calls = <<>>
           /\ battery_status' = battery_status
           /\ usb_charge_mode_enable' = usb_charge_mode_enable
           /\ control_mode' = control_mode]_vars

\* usb_charge_limit_store "20" ran with the quirk on and the mode cached as off
C5_Witness ==
    /\ op.name = "usb_charge_limit_store"
    /\ quirk_entry(quirks).usb_charge_mode # 0
    /\ usb_charge_mode_enable = 0
    /\ kstrtoint(op.buf).val = 20
    /\ op.ret = -EINVAL
    /\ op.calls = <<>>

\* C6: with the usb_charge_mode quirk on and usb_charge_mode_enable = 1,
\* usb_charge_limit_store of the integer n issues the set call exactly when n
\* is 10, 20 or 30 (operand 659204, 1314564, 1969924); for any other integer,
\* those outside 0..255 included, it returns -EINVAL and makes no call.
C6_LimitAcceptsExactly ==
    [][(/\ op'.name = "usb_charge_limit_store"
        /\ quirk_entry(quirks).usb_charge_mode # 0
        /\ usb_charge_mode_enable = 1
        /\ kstrtoint(op'.buf).err = 0)
        => IF kstrtoint(op'.buf).val \in {10, 20, 30}
           THEN /\ Len(op'.calls) = 1
                /\ op'.calls[1].fn = "wmi_B"
                /\ op'.calls[1].arg =
                     <<ACER_WMID_SET_FUNCTION,
                       CASE kstrtoint(op'.buf).val = 10 -> 659204
                         [] kstrtoint(op'.buf).val = 20 -> 1314564
                         [] kstrtoint(op'.buf).val = 30 -> 1969924>>
           ELSE op'.ret = -EINVAL /\ op'.calls = <<>>]_vars

\* usb_charge_limit_store of an integer above 255 issued the set call
C6_Witness ==
    /\ op.name = "usb_charge_limit_store"
    /\ kstrtoint(op.buf).err = 0
    /\ kstrtoint(op.buf).val > 255
    /\ Len(op.calls) = 1
    /\ op.calls[1].fn = "wmi_B"
    /\ op.ret = Len(op.buf)

\* C7: when devm_platform_profile_register first succeeds at attempt k,
\* acer_platform_profile_setup has made exactly k registration calls and k-1
\* sleeps, the i-th sleep between attempt i and attempt i+1 and of
\* min(100 * 2^(i-1), 1000) ms.
C7_RegistrationBackoff ==
    (/\ op.name = "acer_platform_profile_setup"
     /\ \E k \in 1..Len(RegisterCalls(op)) : Succeeded(RegisterCalls(op)[k]))
    => \E k \in 1..Len(RegisterCalls(op)) :
         /\ Succeeded(RegisterCalls(op)[k])
         /\ \A i \in 1..(k - 1) : ~Succeeded(RegisterCalls(op)[i])
         /\ Len(RegisterCalls(op)) = k
         /\ Len(Sleeps(op)) = k - 1
         /\ Len(Timeline(op)) = 2 * k - 1
         /\ \A i \in 1..k :
              /\ Timeline(op)[2 * i - 1].fn = "devm_platform_profile_register"
              /\ Timeline(op)[2 * i - 1].arg[1] = i
         /\ \A i \in 1..(k - 1) :
              /\ Timeline(op)[2 * i].fn = "msleep"
              /\ Timeline(op)[2 * i].arg = <<Delay(i)>>

\* four attempts failed and the fifth succeeded, after sleeps of 100, 200, 400, 800
C7_Witness ==
    /\ op.name = "acer_platform_profile_setup"
    /\ op.ret = 0
    /\ Len(RegisterCalls(op)) = 5
    /\ Succeeded(RegisterCalls(op)[5])
    /\ [i \in 1..Len(Sleeps(op)) |-> Sleeps(op)[i].arg[1]] = <<100, 200, 400, 800>>

\* C8: acer_platform_profile_setup makes at most 10 registration calls; when
\* all 10 fail it has slept 9 times, none after the 10th attempt, returns the
\* error of the 10th attempt and leaves platform_profile_support false;
\* platform_profile_support is true only once an attempt has succeeded.  (The
\* loop ends: register_loop is evaluated to its result within the one step.)
C8_RegistrationBounded ==
    /\ pc \in {"load", "setup", "failed"} => ~platform_profile_support
    /\ op.name = "acer_platform_profile_setup" =>
         /\ Len(RegisterCalls(op)) <= 10
         /\ platform_profile_support
              <=> \E i \in 1..Len(RegisterCalls(op)) : Succeeded(RegisterCalls(op)[i])
         /\ (/\ Len(RegisterCalls(op)) = 10
             /\ \A i \in 1..10 : ~Succeeded(RegisterCalls(op)[i]))
            => /\ Len(Sleeps(op)) = 9
               /\ Timeline(op)[Len(Timeline(op))].fn = "devm_platform_profile_register"
               /\ op.ret = RegisterCalls(op)[10].arg[2]
               /\ op.ret < 0
               /\ ~platform_profile_support

\* all ten attempts failed, the tenth with another error than the ninth
C8_Witness ==
    /\ op.name = "acer_platform_profile_setup"
    /\ Len(RegisterCalls(op)) = 10
    /\ \A i \in 1..10 : ~Succeeded(RegisterCalls(op)[i])
    /\ RegisterCalls(op)[9].arg[2] # RegisterCalls(op)[10].arg[2]
    /\ op.ret = RegisterCalls(op)[10].arg[2]
    /\ ~platform_profile_support

\* C9: a thread that reads battery_status while another refreshes it sees the
\* pair (health_mode, calibration_mode) of before the refresh or the pair of
\* after it, never one field of each.
C9_NoTornRead ==
    thr.r = "read" => thr.seen \in {thr.old, thr.new}

\* the reader saw the new health_mode with the old calibration_mode
C9_Witness ==
    /\ thr.r = "read"
    /\ thr.old.health_mode # thr.new.health_mode
    /\ thr.old.calibration_mode # thr.new.calibration_mode
    /\ thr.seen = [health_mode |-> thr.new.health_mode,
                   calibration_mode |-> thr.old.calibration_mode]

\* C10: a set operation whose firmware call or EC write fails returns an
\* error (a negative value), never the byte count.
C10_FailedSetReturnsError ==
    (op.name \in SetOps /\ SetCallFailed(op)) => op.ret < 0

\* health_mode_store returned the byte count although method 21 failed
C10_Witness ==
    /\ op.name = "health_mode_store"
    /\ SetCallFailed(op)
    /\ op.ret = Len(op.buf)

\* C11: with the usb_charge_mode quirk off a write to usb_charge_mode or
\* usb_charge_limit, and with the system_control_mode quirk off a write to
\* system_control_mode or a profile set, makes no firmware call and no EC
\* write and changes no cached value, in every state and for every input.
C11_DisabledWriteIsInert ==
    pc = "running" =>
      /\ quirk_entry(quirks).usb_charge_mode = 0 =>
           /\ \A buf \in UsbModeBufs, rB \in ResponsesB :
                /\ usb_charge_mode_store(buf, rB).calls = <<>>
                /\ usb_charge_mode_store(buf, rB).usb_charge_mode_enable
                     = usb_charge_mode_enable
           /\ \A buf \in UsbLimitBufs, rB \in ResponsesB :
                usb_charge_limit_store(buf, rB).calls = <<>>
      /\ quirk_entry(quirks).system_control_mode = 0 =>
           /\ \A buf \in ModeBufs, ew \in EcResults :
                /\ system_control_mode_store(buf, ew).calls = <<>>
                /\ system_control_mode_store(buf, ew).control_mode = control_mode
                /\ system_control_mode_store(buf, ew).ec = ec
           /\ \A profile \in Profiles, ew \in EcResults :
                /\ acer_platform_profile_set(profile, ew).calls = <<>>
                /\ acer_platform_profile_set(profile, ew).control_mode = control_mode
                /\ acer_platform_profile_set(profile, ew).ec = ec

\* usb_charge_mode_store of an accepted value ran with the quirk off
C11_Witness ==
    /\ op.name = "usb_charge_mode_store"
    /\ quirk_entry(quirks).usb_charge_mode = 0
    /\ kstrtoint(op.buf).err = 0
    /\ kstrtoint(op.buf).val = 1
    /\ op.ret = -EOPNOTSUPP
    /\ op.calls = <<>>

\* C12: health_mode_store / calibration_mode_store with the mode's cached
\* value negative returns 0 and makes no call; with the cached value
\* non-negative and an input that parses as a bool it calls method 21 once,
\* with the mode's bit (1 health, 2 calibration) and the bool, and then
\* method 20 once, in that order.
C12_BatteryStoreCalls ==
    [][/\ op'.name = "health_mode_store" =>
            IF battery_status.health_mode < 0
            THEN op'.ret = 0 /\ op'.calls = <<>>
            ELSE kstrtobool(op'.buf).err = 0 =>
                   /\ Len(op'.calls) = 2
                   /\ op'.calls[1].fn = "wmi_A"
                   /\ op'.calls[1].arg = <<21, 1, 1, BoolCode(kstrtobool(op'.buf).val)>>
                   /\ op'.calls[2].fn = "wmi_A"
                   /\ op'.calls[2].arg[1] = 20
       /\ op'.name = "calibration_mode_store" =>
            IF battery_status.calibration_mode < 0
            THEN op'.ret = 0 /\ op'.calls = <<>>
            ELSE kstrtobool(op'.buf).err = 0 =>
                   /\ Len(op'.calls) = 2
                   /\ op'.calls[1].fn = "wmi_A"
                   /\ op'.calls[1].arg = <<21, 1, 2, BoolCode(kstrtobool(op'.buf).val)>>
                   /\ op'.calls[2].fn = "wmi_A"
                   /\ op'.calls[2].arg[1] = 20]_vars

\* health_mode_store "0\n" made its two calls, and the refresh then found the
\* mode unavailable
C12_Witness ==
    /\ op.name = "health_mode_store"
    /\ op.buf = <<"0", "\n">>
    /\ Len(op.calls) = 2
    /\ op.calls[1].arg = <<21, 1, 1, 0>>
    /\ op.calls[2].arg[1] = 20
    /\ battery_status.health_mode < 0

\* the object r is a buffer whose length is none of those in lengths
WrongLength(r, lengths) ==
    r.status = "AE_OK" /\ r.type = "buffer" /\ Len(r.bytes) \notin lengths

\* C13: a response buffer of another length than expected (8 for method 20,
\* 4 for method 21, 4 or 8 for the ApgeAction methods) makes the call return a
\* failure, and nothing read from it reaches the caller or the cache.
C13_WrongLengthFails ==
    pc = "running" =>
      /\ \A r20 \in Responses20 :
           WrongLength(r20, {8}) =>
             /\ ACPI_FAILURE(get_battery_health_control_status(battery_status, r20).status)
             /\ get_battery_health_control_status(battery_status, r20).bat_status
                  = battery_status
      /\ \A r21 \in Responses21 :
           WrongLength(r21, {4}) =>
             ACPI_FAILURE(set_battery_health_control(HEALTH_MODE, TRUE, r21).status)
      /\ \A rB \in ResponsesB :
           WrongLength(rB, {4, 8}) =>
             ACPI_FAILURE(acer_wmi_apgeaction_exec_u64(ACER_WMID_GET_FUNCTION, 4, rB).status)

\* the firmware may answer the ApgeAction get function with a buffer of 2
\* bytes, and usb_charge_limit_show then returns a text, not an error
C13_Witness ==
    /\ pc = "running"
    /\ quirk_entry(quirks).usb_charge_mode # 0
    /\ \E rB \in ResponsesB :
         /\ WrongLength(rB, {4, 8})
         /\ usb_charge_limit_show(rB).ret > 0
         /\ Shown(usb_charge_limit_show(rB)) = -1

\* the ec_write calls among the calls recorded in o
EcWrites(o) == SelectSeq(o.calls, LAMBDA c : c.fn = "ec_write")
\* the ec_read calls among the calls recorded in o
EcReads(o) == SelectSeq(o.calls, LAMBDA c : c.fn = "ec_read")

\* C14: at module initialization enable_system_control_mode = 0 selects
\* balanced, 1 silent and 2 performance (the mode is written to the EC register
\* and cached), and a negative value writes nothing, as the parameter's
\* description says.  (Stated for the initializations that succeed with the
\* quirk on and the EC accesses succeeding.)
C14_StartupParameter ==
    (/\ op.name = "acer_wmi_ext_init"
     /\ op.ret = 0
     /\ Len(EcReads(op)) = 1
     /\ Succeeded(EcReads(op)[1])
     /\ \A i \in 1..Len(EcWrites(op)) : Succeeded(EcWrites(op)[i]))
    => /\ op.arg[2] < 0 => EcWrites(op) = <<>>
       /\ op.arg[2] = 0 =>
            /\ control_mode = SYSTEM_CONTROL_BALANCED
            /\ ec = SYSTEM_CONTROL_BALANCED
            /\ Len(EcWrites(op)) = 1
            /\ EcWrites(op)[1].arg[2] = SYSTEM_CONTROL_BALANCED
       /\ op.arg[2] = 1 =>
            /\ control_mode = SYSTEM_CONTROL_SILENT
            /\ ec = SYSTEM_CONTROL_SILENT
            /\ Len(EcWrites(op)) = 1
            /\ EcWrites(op)[1].arg[2] = SYSTEM_CONTROL_SILENT
       /\ op.arg[2] = 2 =>
            /\ control_mode = SYSTEM_CONTROL_PERFORMANCE
            /\ ec = SYSTEM_CONTROL_PERFORMANCE
            /\ Len(EcWrites(op)) = 1
            /\ EcWrites(op)[1].arg[2] = SYSTEM_CONTROL_PERFORMANCE

\* the module was loaded with enable_system_control_mode = 1 and the EC
\* register and the cache hold 1, balanced
C14_Witness ==
    /\ op.name = "acer_wmi_ext_init"
    /\ op.ret = 0
    /\ op.arg[2] = 1
    /\ Len(EcWrites(op)) = 1
    /\ Succeeded(EcWrites(op)[1])
    /\ control_mode = SYSTEM_CONTROL_BALANCED
    /\ ec = SYSTEM_CONTROL_BALANCED

\* C15: balanced <-> 1, low-power <-> 2, performance <-> 3: after a
\* successful acer_platform_profile_set(p), acer_platform_profile_get returns
\* p; get returns -EOPNOTSUPP exactly when control_mode is none of 1, 2, 3;
\* set of another profile returns -EOPNOTSUPP and writes no EC register.
C15_ProfileBijection ==
    /\ control_mode = 1 =>
         acer_platform_profile_get = [ret |-> 0, profile |-> "PLATFORM_PROFILE_BALANCED"]
    /\ control_mode = 2 =>
         acer_platform_profile_get = [ret |-> 0, profile |-> "PLATFORM_PROFILE_LOW_POWER"]
    /\ control_mode = 3 =>
         acer_platform_profile_get
           = [ret |-> 0, profile |-> "PLATFORM_PROFILE_PERFORMANCE"]
    /\ acer_platform_profile_get.ret = -EOPNOTSUPP <=> control_mode \notin {1, 2, 3}
    /\ op.name = "acer_platform_profile_set" =>
         /\ op.ret = 0 => acer_platform_profile_get = [ret |-> 0, profile |-> op.arg[1]]
         /\ op.arg[1] \notin {"PLATFORM_PROFILE_BALANCED", "PLATFORM_PROFILE_LOW_POWER",
                              "PLATFORM_PROFILE_PERFORMANCE"}
            => op.ret = -EOPNOTSUPP /\ EcWrites(op) = <<>>

\* acer_platform_profile_set(low-power) wrote the EC register and get returns
\* low-power
C15_Witness ==
    /\ op.name = "acer_platform_profile_set"
    /\ op.arg[1] = "PLATFORM_PROFILE_LOW_POWER"
    /\ op.ret = 0
    /\ Len(EcWrites(op)) = 1
    /\ acer_platform_profile_get.profile = "PLATFORM_PROFILE_LOW_POWER"

\* the operands a firmware may report, as an integer or as a buffer of 4 or 8 bytes
ReportedOperands == {663296, 659200, 1314560, 1969920, 0, 663300, 659204}
Reporting(v) == {IntegerObject(v), BufferObject(le_bytes(v, 4)), BufferObject(le_bytes(v, 8))}

\* C16: init_usb_charge_mode caches 0 for 663296, 1 for 659200, 1314560 and
\* 1969920, -1 for any other operand; usb_charge_limit_show prints 10, 20, 30
\* for 659200, 1314560, 1969920 and -1 otherwise; usb_charge_mode_store of 0
\* sends 663300 and of 1 sends 1969924, and succeeds when the call does.
C16_OperandClassification ==
    (pc = "running" /\ quirk_entry(quirks).usb_charge_mode # 0 /\ has_guid[WMI_GUID2])
    => \A v \in ReportedOperands : \A r \in Reporting(v) :
         /\ init_usb_charge_mode(quirks, r).usb_charge_mode_enable
              = (IF v = 663296 THEN 0
                 ELSE IF v \in {659200, 1314560, 1969920} THEN 1 ELSE -1)
         /\ Shown(usb_charge_limit_show(r))
              = (IF v = 659200 THEN 10 ELSE IF v = 1314560 THEN 20
                 ELSE IF v = 1969920 THEN 30 ELSE -1)
         /\ usb_charge_mode_store(<<"0">>, r).calls[1].arg = <<ACER_WMID_SET_FUNCTION, 663300>>
         /\ usb_charge_mode_store(<<"0">>, r).ret = 1
         /\ usb_charge_mode_store(<<"1", "\n">>, r).calls[1].arg
              = <<ACER_WMID_SET_FUNCTION, 1969924>>
         /\ usb_charge_mode_store(<<"1", "\n">>, r).ret = 2

\* usb_charge_mode_store "0" sent 663300, succeeded, and the cache holds 0
C16_Witness ==
    /\ op.name = "usb_charge_mode_store"
    /\ op.buf = <<"0">>
    /\ op.ret = 1
    /\ op.calls = <<Call("wmi_B", <<ACER_WMID_SET_FUNCTION, 663300>>, "AE_OK")>>
    /\ usb_charge_mode_enable = 0

\* C17: after a successful refresh a battery mode's cached value is -1 when
\* its bit (bit 0 health, bit 1 calibration) is missing from uFunctionList, 1
\* when the bit is set and its status byte (uFunctionStatus[0] health, [1]
\* calibration) is not zero, 0 when the bit is set and the byte is zero; so
\* both cached values are always -1, 0 or 1.
C17_RefreshDecode ==
    /\ battery_status.health_mode \in {-1, 0, 1}
    /\ battery_status.calibration_mode \in {-1, 0, 1}
    /\ pc = "running" =>
         \A r20 \in Responses20 :
           ~ACPI_FAILURE(update_state(r20).status) =>
             /\ update_state(r20).bat_status.health_mode
                  = (IF r20.bytes[1] % 2 = 0 THEN -1
                     ELSE IF r20.bytes[4] # 0 THEN 1 ELSE 0)
             /\ update_state(r20).bat_status.calibration_mode
                  = (IF (r20.bytes[1] \div 2) % 2 = 0 THEN -1
                     ELSE IF r20.bytes[5] # 0 THEN 1 ELSE 0)

\* a store handler's refresh succeeded and left health 1, calibration -1, as
\* uFunctionList = 0b01 with uFunctionStatus[0] # 0 gives
C17_Witness ==
    /\ op.name \in {"health_mode_store", "calibration_mode_store"}
    /\ Len(op.calls) = 2
    /\ Succeeded(op.calls[2])
    /\ battery_status = [health_mode |-> 1, calibration_mode |-> -1]
    /\ \E r20 \in Responses20 :
         /\ r20.type = "buffer" /\ Len(r20.bytes) = 8
         /\ r20.bytes[1] = 1 /\ r20.bytes[4] = 1
         /\ update_state(r20).bat_status = battery_status

\* C18: once the first EC read at start-up has succeeded, control_mode is 1,
\* 2 or 3 in every later state, whatever byte the EC register holds and
\* whatever is stored or set afterwards.  (control_mode leaves -1 only by a
\* successful ec_read in acer_system_control_mode_init or by a successful set.)
C18_ControlModeIsNamed ==
    (pc \in {"setup", "running"} /\ control_mode # -1) => control_mode \in {1, 2, 3}

\* the start-up read succeeded on a register holding 0, and 0 is cached
C18_Witness ==
    /\ op.name = "acer_wmi_ext_init"
    /\ op.ret = 0
    /\ Len(EcReads(op)) = 1
    /\ Succeeded(EcReads(op)[1])
    /\ EcWrites(op) = <<>>
    /\ ec = 0
    /\ control_mode = 0

\* C19: when WMI_GUID1 is absent the cached battery modes, and when WMI_GUID2
\* is absent the cached USB charge mode, are -1 after initialization and stay
\* -1 (no query of an absent namespace succeeds).
C19_AbsentNamespaceUnknown ==
    pc \in {"setup", "running"} =>
      /\ ~has_guid[WMI_GUID1] =>
           /\ battery_status.health_mode = -1
           /\ battery_status.calibration_mode = -1
      /\ ~has_guid[WMI_GUID2] => usb_charge_mode_enable = -1

\* initialization succeeded without WMI_GUID1 and health_mode_show prints 0
C19_Witness ==
    /\ pc = "running"
    /\ ~has_guid[WMI_GUID1]
    /\ op.name = "health_mode_show"
    /\ Shown(op) = 0

\* the runs of the probe callback among the calls recorded in o
Probes(o) == SelectSeq(o.calls, LAMBDA c : c.fn = "probe")

\* C20: when acer_platform_profile_probe returns 0, the one-time
\* initialization has read the EC register successfully, so control_mode is
\* not negative; without a successful EC read the probe does not return 0.
C20_ProbeAfterInit ==
    (/\ op.name = "acer_platform_profile_setup"
     /\ \E i \in 1..Len(Probes(op)) : Succeeded(Probes(op)[i]))
    => control_mode >= 0

\* the probe returned 0 and the profile is registered although no EC read
\* was made by the probe and control_mode is -1
C20_Witness ==
    /\ op.name = "acer_platform_profile_setup"
    /\ Len(Probes(op)) = 1
    /\ Succeeded(Probes(op)[1])
    /\ EcReads(op) = <<>>
    /\ platform_profile_support
    /\ system_control_mode_inited = 1
    /\ control_mode = -1

\* the firmware calls recorded in o that go to Namespace A (methods 20, 21)
CallsA(o) == SelectSeq(o.calls, LAMBDA c : c.fn = "wmi_A")

\* the firmware calls recorded in o that go to Namespace B (get/set)
CallsB(o) == SelectSeq(o.calls, LAMBDA c : c.fn = "wmi_B")

\* C21: no operation, at start-up or at runtime, calls a method of a
\* namespace that is absent: a call of method 20 or 21 is made only when
\* WMI_GUID1 is present, and a get/set call only when WMI_GUID2 is present.
C21_NoCallOnAbsentNamespace ==
    /\ CallsA(op) # <<>> => has_guid[WMI_GUID1]
    /\ CallsB(op) # <<>> => has_guid[WMI_GUID2]

\* on a device without WMI_GUID2 whose quirk enables USB charging,
\* usb_charge_mode_store "1\n" issued the set call, which failed
C21_Witness ==
    /\ pc = "running"
    /\ ~has_guid[WMI_GUID2]
    /\ op.name = "usb_charge_mode_store"
    /\ op.buf = <<"1", "\n">>
    /\ op.ret = -ENODEV
    /\ op.calls = <<Call("wmi_B", <<ACER_WMID_SET_FUNCTION, 1969924>>, "AE_ERROR")>>

\* C22: when acer_system_control_mode_init, system_control_mode_store and
\* acer_platform_profile_set run one at a time, a failed ec_write leaves the
\* register as it was and nothing else writes it, a control_mode that is not
\* negative equals the content of the EC register at offset 0x45.
C22_CacheEqualsRegister ==
    control_mode >= 0 => control_mode = ec

\* system_control_mode_store "3" failed in ec_write after an earlier set had
\* moved register and cache away from the value read at start-up
C22_Witness ==
    /\ pc = "running"
    /\ op.name = "system_control_mode_store"
    /\ op.ret = -EIO
    /\ op.calls = <<Call("ec_write", <<ACER_SYSTEM_CONTROL_MODE_EC_OFFSET, 3>>, "AE_ERROR")>>
    /\ control_mode = 2
    /\ ec = 2

\* C23: for every interleaving of a system_control_mode_store and an
\* acer_platform_profile_set running as two threads, each doing its ec_write
\* and then its assignment of control_mode as separate steps, once both have
\* returned successfully control_mode equals the content of the EC register.
C23_ConcurrentCacheEqualsRegister ==
    (thr.s = "done" /\ thr.p = "done") => control_mode = ec

\* the store of 2 and the set of PLATFORM_PROFILE_PERFORMANCE both succeeded;
\* the set wrote the register last, the store assigned control_mode last
C23_Witness ==
    /\ thr.s = "done" /\ thr.s_val = 2 /\ thr.s_ret = thr.s_count
    /\ thr.p = "done" /\ thr.p_val = 3 /\ thr.p_ret = 0
    /\ ec = 3
    /\ control_mode = 2

====
